---- MODULE Spec2Model ----
(***************************************************************************)
(* Model of src/ai_agents/zenorc.py: the e-mail payment pipeline.          *)
(*                                                                         *)
(* Two threads share the module's globals: main_loop (poll_email,          *)
(* log_payment, queue.append) and processor (queue.popleft, send_mqtt).    *)
(* Every statement of the two loops that reads or writes a shared global   *)
(* is one action, so every interleaving of the threads is explored.        *)
(* The mailbox, the ledger sheet, the broker and the clock are the         *)
(* environment: their answers are drawn nondeterministically.              *)
(***************************************************************************)
EXTENDS Integers, Sequences, FiniteSets, TLC

\* ------------------------------------------------------------------ bounds
\* Messages the environment delivers to the inbox in one run.
MaxMsgs == 2
\* Distinct transaction identifiers the delivered bodies can carry.
MaxTxn == 2
\* Cooldown of the modelled configuration, in seconds: COOLDOWN_SECONDS is read
\* from the environment (default 40); the model runs a short one.
COOLDOWN_SECONDS == 2
\* Largest max_retries argument explored for send_mqtt on its own.
MaxRetriesArg == 4
\* Longest body, in tokens, the text functions are applied to.
MaxBody == 4
\* Largest clock value at a call of _extract_txn_id.
MaxClock == 1
\* Longest history of a session of the web backend.
MaxHist == 3
\* MAX_SIZE of create_context, scaled down from 2 * 1024 * 1024 characters.
MAX_SIZE == 3
\* Most files of one directory that create_context walks.
MaxFiles == 2

\* --------------------------------------------------------------- constants
\* send_mqtt(max_retries: int = 3, ...): the default the processor uses.
DefaultMaxRetries == 3
\* for uid in reversed(...split()[-30:]): the recent window of poll_email.
RecentWindow == 30

\* Python's None where a transaction identifier is expected.
None == 0
TxnIds == 1..MaxTxn
Uids == 1..MaxMsgs
\* The threads that call poll_email: main_loop's, and a second caller for what
\* the function promises when it is called from several threads.
Pollers == {"main_loop", "other"}
\* imap_lock when no thread holds it.
LockFree == "free"
\* No message in hand.
NoUid == None
\* The zones tz_mumbai asks the zone database for.
Zones == {"Asia/Mumbai", "UTC"}

\* The session ids requests come with.
Sids == {"s1", "s2"}

\* The directories os.walk(root_path) yields, top down.
WalkDirs == <<"repo", "repo/src">>

\* The lengths a file's text_chunk can have: up to one more than MAX_SIZE.
ChunkLens == 1..(MAX_SIZE + 1)

\* What the clone directory of a session can be: not there, or there (a
\* clone, or what a failed shutil.rmtree left of one).
DirStates == {"absent", "present"}

\* The roles of history entries.
Roles == {"system", "model", "user"}

\* What the field analysis of a session can hold: None, the empty text, a text.
Texts == {"None", "", "text"}

\* A string is a sequence of pieces; "https://github.com/" is HTTP followed
\* by one more piece.
HTTP == <<"http">>

GITHUB == <<"http", "s://github.com/">>

\* The targets /api/ingest is called with: a GitHub URL, another https URL,
\* a GitHub URL over plain http, and a path of the server's file system.
Targets == {<<"http", "s://github.com/", "user/repo">>,
            <<"http", "s://example.org/", "user/repo">>,
            <<"http", "://github.com/", "user/repo">>,
            <<"/srv/", "data">>}

\* The answer to a request, with what the request did on the way: on what
\* sort of URL git clone was run ("none" when it was not run), and from what
\* create_context built a context.
Answer(ep, sid, code, detail, cloned, built) ==
    [ep |-> ep, sid |-> sid, code |-> code, detail |-> detail,
     cloned |-> cloned, built |-> built]

\* The sequences of at most MaxBody tokens.
BodiesOver(tokens) == UNION {[1..n -> tokens] : n \in 0..MaxBody}

\* A lower-cased body for _is_valid_payment is a string of tokens, each next
\* to the other: the two markers, a currency marker (the alternatives of the
\* pattern: rupee sign, rs, rs., inr), the digit 5, "x" for any other run of
\* word characters and "sp" for a run of blanks and commas.
ValidTokens == {"credited", "debited", "rs", "5", "x", "sp"}

\* A body for _extract_txn_id is a sequence of words with blanks between:
\*   ref        Reference, Reference No., Reference number, with or without a
\*              colon or dash: the lead-in of the first pattern;
\*   txref      transaction reference number, with or without a colon or
\*              dash: the lead-in of the second pattern, and its tail is a
\*              lead-in of the first;
\*   txref_is   transaction reference number is: the second pattern only;
\*   d1, d2     two different runs of eight or more digits;
\*   short      a run of fewer than eight digits;
\*   x          any other word.
ExtractTokens == {"ref", "txref", "txref_is", "d1", "d2", "short", "x"}

\* What a fetched message body is to poll_email: empty, not a valid payment
\* (_is_valid_payment false), or a valid payment from which _extract_txn_id
\* yields the identifier txn.
Bodies ==
    [kind : {"empty", "junk"}, txn : {None}] \cup [kind : {"payment"}, txn : TxnIds]
\* A message that has been fetched.  It is read, and poll_email searches and
\* fetches unread messages only, so what its body was is never observed again
\* and is not kept.
Fetched == [body |-> [kind |-> "read", txn |-> None], unseen |-> FALSE]
\* Clock values are kept in a window that slides with the present: Now is what
\* time.time() returns, the top of the window, and a second passing moves
\* every stored clock value one second into the past (see tick).  The window
\* is as long as the cooldown, the only span a clock difference is compared to.
Now == COOLDOWN_SECONDS

VARIABLES
    \* ---- module globals (zenorc.py 61-86)
    seen_uids,       \* set of UIDs accepted in this process
    seen_txn_ids,    \* set of identifiers recorded in the ledger
    queue,           \* deque of identifiers awaiting publish
    status,          \* dict identifier -> status string
    last_processed,  \* cooldown clock
    \* ---- environment
    mailbox,         \* sequence of messages; the UID is the index
    ledger,          \* the sheet: identifier -> number of rows holding it
    \* ---- thread positions and locals
    started,         \* start() has run
    pc_m,            \* main_loop position
    m_txn,           \* main_loop's txn_id
    pc_p,            \* processor position
    p_txn,           \* processor's txn_id
    ok,              \* processor's ok / send_mqtt's return value
    \* ---- send_mqtt frame
    max_retries,     \* argument
    attempt,         \* loop variable
    outcome,         \* how the try block of the current attempt ended
    loop_running,    \* the current client's network loop / socket is up
    \* ---- history (observation only, never read by the program)
    sleeps,          \* retry_delay sleeps of the current call
    clients,         \* mqtt.Client objects created in the current call
    send_end,        \* clock value when the last send_mqtt call returned (0: none yet)
    enq,             \* every identifier appended to queue, in order
    deq,             \* every identifier popped from queue, in order
    \* ---- poll_email statement by statement, one frame per calling thread
    imap_lock,       \* the thread holding imap_lock, LockFree when none
    pc_t,            \* thread -> position in poll_email
    todo,            \* thread -> UIDs the for loop has still to visit
    cur,             \* thread -> uid of the current iteration
    ret_t,           \* thread -> value the current invocation is to return
    \* ---- history of the calls (observation only)
    err_t,           \* thread -> a call raised inside the current invocation
    logins,          \* thread -> _imap_login calls of the current invocation
    sources,         \* UIDs whose message supplied a returned identifier
    considered,      \* UIDs some invocation has fetched
    \* ---- log_payment statement by statement
    zones,           \* time zones the host's zone database holds
    pc_l,            \* position in log_payment
    l_tz,            \* what the call tz_mumbai() gave
    \* ---- the text functions applied to one body
    fn_body,         \* the body, a sequence of tokens
    fn_clock,        \* int(time.time()) at the call
    fn_out,          \* <<>> before the call, <<value>> after it
    \* ---- the web backend (main.py)
    SESSIONS,        \* session_id -> session dict
    resp,            \* the last request and the answer it got
    clone_dir,       \* session_id -> state of the directory temp_clone_<id>
    \* ---- create_context, file by file
    fs_tree,         \* the directories os.walk yields, each the chunk lengths of its files
    walk_at,         \* <<directory, file>> the two loops stand at
    content,         \* the accumulated context, character by character
    current_size,    \* create_context's current_size
    file_count,      \* create_context's file_count
    exceeded         \* a chunk has not fitted (observation only)

vars == <<seen_uids, seen_txn_ids, queue, status, last_processed, mailbox,
          ledger, started, pc_m, m_txn, pc_p, p_txn, ok, max_retries,
          attempt, outcome, loop_running, sleeps, clients, send_end,
          enq, deq, imap_lock, pc_t, todo, cur, ret_t, err_t, logins,
          sources, considered, zones, pc_l, l_tz, fn_body, fn_clock, fn_out,
          SESSIONS, resp, clone_dir, fs_tree, walk_at, content, current_size,
          file_count, exceeded>>

globals == <<seen_uids, seen_txn_ids, queue, status, last_processed>>
env == <<mailbox, ledger>>
main_locals == <<pc_m, m_txn>>
proc_locals == <<pc_p, p_txn, ok>>
mqtt_frame == <<max_retries, attempt, outcome, loop_running>>
mqtt_hist == <<sleeps, clients>>
queue_hist == <<enq, deq>>
poll_frames == <<imap_lock, pc_t, todo, cur, ret_t>>
poll_hist == <<err_t, logins, sources, considered>>
poll_vars == <<poll_frames, poll_hist>>
log_vars == <<zones, pc_l, l_tz>>
fn_vars == <<fn_body, fn_clock, fn_out>>
web_vars == <<SESSIONS, resp>>
ctx_vars == <<fs_tree, walk_at, content, current_size, file_count, exceeded>>
\* What the pipeline and poll_email never touch.
side_vars == <<log_vars, fn_vars, web_vars, clone_dir, ctx_vars>>

\* The values the variables hold.
TypeOK ==
    /\ seen_uids \subseteq Uids
    /\ seen_txn_ids \subseteq TxnIds
    /\ queue \in Seq(TxnIds)
    /\ DOMAIN status \subseteq TxnIds
    /\ \A t \in DOMAIN status :
           status[t] \in {"Queued", "Processing", "Completed", "Failed"}
    /\ last_processed \in 0..Now
    /\ Len(mailbox) <= MaxMsgs
    /\ \A u \in 1..Len(mailbox) :
           mailbox[u] \in [body : Bodies, unseen : BOOLEAN] \cup {Fetched}
    /\ ledger \in [TxnIds -> Nat]
    /\ started \in BOOLEAN
    \* "dead": an exception left the loop body and ended the thread
    /\ pc_m \in {"idle", "poll", "check", "set_queued", "log_payment", "append",
                  "dead"}
    /\ m_txn \in TxnIds \cup {None}
    /\ pc_p \in {"idle", "top", "cooldown", "pop", "set_processing", "send",
                  "except", "finally", "set_final", "set_last", "dead"}
    /\ p_txn \in TxnIds \cup {None}
    /\ ok \in BOOLEAN
    /\ max_retries \in Nat
    /\ attempt \in 0..max_retries
    /\ outcome \in {"none", "connect_error", "ack_timeout", "publish_error", "published"}
    /\ loop_running \in BOOLEAN
    /\ sleeps \in Nat
    /\ clients \in Nat
    /\ send_end \in 0..Now
    /\ enq \in Seq(TxnIds)
    /\ deq \in Seq(TxnIds)
    /\ imap_lock \in Pollers \cup {LockFree}
    /\ pc_t \in [Pollers -> {"idle", "acquire", "login", "loop", "fetch", "accept",
                              "store", "logout", "except", "release", "raised"}]
    /\ todo \in [Pollers -> Seq(Uids)]
    /\ cur \in [Pollers -> Uids \cup {NoUid}]
    /\ ret_t \in [Pollers -> TxnIds \cup {None}]
    /\ err_t \in [Pollers -> BOOLEAN]
    /\ logins \in [Pollers -> Nat]
    /\ sources \subseteq Uids
    /\ considered \subseteq Uids
    /\ zones \subseteq Zones
    /\ pc_l \in {"idle", "sheet", "tz", "append", "add", "logged", "except",
                  "failed", "raised"}
    /\ l_tz \in Zones \cup {"none", "NameError"}
    /\ Len(fn_body) <= MaxBody
    /\ \A i \in 1..Len(fn_body) : fn_body[i] \in ValidTokens \cup ExtractTokens
    /\ fn_clock \in 0..MaxClock
    /\ Len(fn_out) <= 2
    /\ DOMAIN SESSIONS \subseteq Sids
    /\ \A sid \in DOMAIN SESSIONS :
          /\ Len(SESSIONS[sid].history) <= MaxHist
          /\ \A i \in 1..Len(SESSIONS[sid].history) :
                SESSIONS[sid].history[i] \in Roles
          /\ SESSIONS[sid].file_name \in {"None", "files/ctx"}
          /\ SESSIONS[sid].analysis \in Texts
          /\ SESSIONS[sid].generated_file \in {"None", "out.py"}
    /\ resp.ep \in {"none", "history", "ingest", "analyze", "refactor", "chat"}
    /\ resp.sid \in Sids \cup {"none"}
    /\ resp.code \in {0, 200, 400, 500}
    /\ resp.cloned \in {"none", "github", "other"}
    /\ resp.built \in {"none", "clone", "path"}
    /\ clone_dir \in [Sids -> DirStates]
    /\ Len(fs_tree) \in {0, Len(WalkDirs)}
    /\ \A d \in 1..Len(fs_tree) :
          /\ Len(fs_tree[d]) <= MaxFiles
          /\ \A f \in 1..Len(fs_tree[d]) : fs_tree[d][f] \in ChunkLens
    /\ walk_at \in (0..(Len(WalkDirs) + 1)) \X (0..(MaxFiles + 1))
    /\ Len(content) <= MAX_SIZE
    /\ current_size \in 0..MAX_SIZE
    /\ file_count \in 0..(Len(WalkDirs) * MaxFiles)
    /\ exceeded \in BOOLEAN

\* ------------------------------------------------------------------ helpers
Range(s) == {s[i] : i \in 1..Len(s)}

Max(a, b) == IF a > b THEN a ELSE b

Min(S) == CHOOSE x \in S : \A y \in S : x <= y

\* The last n elements of s: s[-n:].
LastN(s, n) == IF Len(s) <= n THEN s ELSE SubSeq(s, Len(s) - n + 1, Len(s))

RECURSIVE Reverse(_)
Reverse(s) == IF s = <<>> THEN <<>> ELSE Append(Reverse(Tail(s)), Head(s))

\* mail.search(None, "(UNSEEN)"): the UIDs of the unread messages, ascending.
RECURSIVE Unseen(_, _)
Unseen(mb, i) ==
    IF i > Len(mb) THEN <<>>
    ELSE IF mb[i].unseen THEN <<i>> \o Unseen(mb, i + 1)
    ELSE Unseen(mb, i + 1)

\* ------------------------------------------------------- exception handlers
\* Whether an exception raised inside the function leaves the function.  Each
\* of the four wraps its I/O in try: ... except Exception, so none does.
BootstrapRaises_uncaught(raised) == raised

\* _bootstrap_txns: except Exception as e: log(...); return set()
BootstrapRaises(raised) == FALSE

LogPaymentRaises_uncaught(raised) == raised

\* log_payment: except Exception as e: log(...)
LogPaymentRaises(raised) == FALSE

\* send_mqtt: except Exception as e: log(...); sleep when attempts remain
SendMqttRaises(raised) == FALSE

PollEmailRaises_uncaught(raised) == raised

\* poll_email: except Exception as e: log(...), then return None
PollEmailRaises(raised) == FALSE

\* ---------------------------------------------------------------- poll_email
\* The loop body of poll_email over the UIDs us (newest first).  mb and su are
\* the mailbox and seen_uids so far; fetches is the number of mail.fetch calls
\* that answer before one raises; store_ok says whether mail.store answers.
\* FETCH (RFC822) sets the \Seen flag of the fetched message on the server
\* (RFC 3501, 6.4.5), so every message the loop fetches is read afterwards.
\* The result is the returned value with the mailbox and seen_uids left behind;
\* err says whether a call raised.
AlreadyRecorded_never(txn_id, recorded) == FALSE

\* if txn_id in seen_txn_ids: continue
AlreadyRecorded(txn_id, recorded) == txn_id \in recorded

SkipsSeen_never(uid, su) == FALSE

\* if uid in seen_uids: continue
SkipsSeen(uid, su) == uid \in su

RECURSIVE Scan(_, _, _, _, _, _)
Scan(us, mb, su, recorded, fetches, store_ok) ==
    IF us = <<>> THEN [ret |-> None, mb |-> mb, su |-> su, err |-> FALSE]
    ELSE LET uid == Head(us) IN
        IF SkipsSeen(uid, su) THEN Scan(Tail(us), mb, su, recorded, fetches, store_ok)
        ELSE IF fetches = 0 THEN [ret |-> None, mb |-> mb, su |-> su, err |-> TRUE]
        ELSE LET fetched == [mb EXCEPT ![uid] = Fetched]
                 body == mb[uid].body
             IN  IF body.kind # "payment" \/ AlreadyRecorded(body.txn, recorded)
                 THEN Scan(Tail(us), fetched, su, recorded, fetches - 1, store_ok)
                 ELSE IF store_ok
                      THEN [ret |-> body.txn, mb |-> fetched, su |-> su \cup {uid},
                            err |-> FALSE]
                      ELSE [ret |-> None, mb |-> fetched, su |-> su \cup {uid},
                            err |-> TRUE]

\* poll_email(): login_ok says whether _imap_login, select and search answer.
\* Any exception is caught and the call returns None.
poll_email(login_ok, fetches, store_ok) ==
    IF ~login_ok THEN [ret |-> None, mb |-> mailbox, su |-> seen_uids, err |-> TRUE]
    ELSE Scan(Reverse(LastN(Unseen(mailbox, 1), RecentWindow)),
              mailbox, seen_uids, seen_txn_ids, fetches, store_ok)

\* ------------------------------------------------------------------- start
\* No thread is inside poll_email and none has been.
PollIdle ==
    /\ imap_lock = LockFree
    /\ pc_t = [thr \in Pollers |-> "idle"]
    /\ todo = [thr \in Pollers |-> <<>>]
    /\ cur = [thr \in Pollers |-> NoUid]
    /\ ret_t = [thr \in Pollers |-> None]
    /\ err_t = [thr \in Pollers |-> FALSE]
    /\ logins = [thr \in Pollers |-> 0]
    /\ sources = {}
    /\ considered = {}

\* No caller is inside log_payment on its own.
LogIdle ==
    /\ zones = Zones
    /\ pc_l = "idle"
    /\ l_tz = "none"

\* No text function is being applied.
FnIdle ==
    /\ fn_body = <<>>
    /\ fn_clock = 0
    /\ fn_out = <<>>

\* No request has been answered.
NoAnswer == Answer("none", "none", 0, "none", "none", "none")

\* The web backend has served no request: SESSIONS = {}.
SessionsIdle ==
    /\ SESSIONS = <<>>
    /\ resp = NoAnswer
    /\ clone_dir = [sid \in Sids |-> "absent"]

\* create_context is not running.
CtxIdle ==
    /\ fs_tree = <<>>
    /\ walk_at = <<0, 0>>
    /\ content = <<>>
    /\ current_size = 0
    /\ file_count = 0
    /\ exceeded = FALSE

WebIdle == SessionsIdle /\ CtxIdle

SideIdle == LogIdle /\ FnIdle /\ WebIdle

Init ==
    /\ seen_uids = {}
    /\ seen_txn_ids = {}
    /\ queue = <<>>
    /\ status = <<>>
    /\ last_processed = 0
    /\ mailbox = <<>>
    \* earlier runs left rows for the identifiers 1..k, for any k: every set of
    \* recorded identifiers, up to the names of the identifiers
    /\ \E k \in 0..MaxTxn : ledger = [t \in TxnIds |-> IF t <= k THEN 1 ELSE 0]
    /\ started = FALSE
    /\ pc_m = "idle"
    /\ m_txn = None
    /\ pc_p = "idle"
    /\ p_txn = None
    /\ ok = FALSE
    /\ max_retries = DefaultMaxRetries
    /\ attempt = 0
    /\ outcome = "none"
    /\ loop_running = FALSE
    /\ sleeps = 0
    /\ clients = 0
    /\ send_end = 0
    /\ enq = <<>>
    /\ deq = <<>>
    /\ PollIdle
    /\ SideIdle

\* _bootstrap_txns(): column 1 of the sheet, or the empty set when _sheet or
\* col_values raises.
bootstrap_txns(sheet_ok) ==
    IF sheet_ok THEN {t \in TxnIds : ledger[t] > 0} ELSE {}

\* start(): seen_txn_ids = _bootstrap_txns(), then both threads are started.
start ==
    /\ ~started
    /\ \E sheet_ok \in BOOLEAN :
         IF BootstrapRaises(~sheet_ok)
         THEN \* the exception leaves start() before a thread is created
              UNCHANGED <<seen_txn_ids, pc_m, pc_p>>
         ELSE /\ seen_txn_ids' = bootstrap_txns(sheet_ok)
              /\ pc_m' = "poll"
              /\ pc_p' = "top"
    /\ started' = TRUE
    /\ UNCHANGED <<seen_uids, queue, status, last_processed, env, m_txn, p_txn,
                   ok, mqtt_frame, mqtt_hist, send_end, queue_hist, poll_vars, side_vars>>

\* --------------------------------------------------------------- main_loop
\* txn_id = poll_email()
main_poll ==
    /\ pc_m = "poll"
    /\ \E login_ok \in BOOLEAN, fetches \in 0..MaxMsgs, store_ok \in BOOLEAN :
         LET r == poll_email(login_ok, fetches, store_ok) IN
           /\ mailbox' = r.mb
           /\ seen_uids' = r.su
           /\ IF PollEmailRaises(r.err)
              THEN pc_m' = "dead" /\ UNCHANGED m_txn
              ELSE pc_m' = "check" /\ m_txn' = r.ret
    /\ UNCHANGED <<seen_txn_ids, queue, status, last_processed, ledger,
                   started, proc_locals, mqtt_frame, mqtt_hist, send_end,
                   queue_hist, poll_vars, side_vars>>

ProducerOrder_append_first == <<"set_queued", "append", "log_payment">>

\* The statements of the if body, in the order main_loop has them.
ProducerOrder == <<"set_queued", "log_payment", "append">>

\* Where main_loop stands after the statement step of the if body: at the
\* next statement, or after the last one at the next poll (time.sleep(5) and
\* the next iteration).
AfterStep(step) ==
    LET n == CHOOSE i \in 1..Len(ProducerOrder) : ProducerOrder[i] = step
    IN  IF n = Len(ProducerOrder) THEN "poll" ELSE ProducerOrder[n + 1]

\* txn_id after the statement step: not read again after the last one.
TxnAfterStep(step) == IF AfterStep(step) = "poll" THEN None ELSE m_txn

accepts_any(txn_id) == txn_id # None

\* The guard of main_loop's if: txn_id and txn_id not in status.
accepts(txn_id) == txn_id # None /\ txn_id \notin DOMAIN status

\* if txn_id and txn_id not in status: ... else straight to time.sleep(5)
main_check ==
    /\ pc_m = "check"
    /\ IF accepts(m_txn)
       THEN pc_m' = ProducerOrder[1] /\ UNCHANGED m_txn
       ELSE pc_m' = "poll" /\ m_txn' = None
    /\ UNCHANGED <<globals, env, started, proc_locals, mqtt_frame,
                   mqtt_hist, send_end, queue_hist, poll_vars, side_vars>>

\* status[txn_id] = "Queued"
main_set_queued ==
    /\ pc_m = "set_queued"
    /\ status' = (m_txn :> "Queued") @@ status
    /\ pc_m' = AfterStep("set_queued")
    /\ m_txn' = TxnAfterStep("set_queued")
    /\ UNCHANGED <<seen_uids, seen_txn_ids, queue, last_processed, env, started,
                   proc_locals, mqtt_frame, mqtt_hist, send_end,
                   queue_hist, poll_vars, side_vars>>

recorded_after_always(txn_id, appended) == seen_txn_ids \cup {txn_id}

\* The body of log_payment's try: appended says whether _sheet, tz_mumbai and
\* append_row all answered.  Only then is the identifier added to seen_txn_ids.
recorded_after(txn_id, appended) ==
    IF appended THEN seen_txn_ids \cup {txn_id} ELSE seen_txn_ids

\* log_payment(txn_id)
main_log_payment ==
    /\ pc_m = "log_payment"
    /\ \E appended \in BOOLEAN :
         /\ ledger' = IF appended THEN [ledger EXCEPT ![m_txn] = @ + 1] ELSE ledger
         /\ seen_txn_ids' = recorded_after(m_txn, appended)
         /\ pc_m' = IF LogPaymentRaises(~appended) THEN "dead"
                    ELSE AfterStep("log_payment")
         /\ m_txn' = IF LogPaymentRaises(~appended) THEN m_txn
                     ELSE TxnAfterStep("log_payment")
    /\ UNCHANGED <<seen_uids, queue, status, last_processed, mailbox,
                   started, proc_locals, mqtt_frame, mqtt_hist, send_end,
                   queue_hist, poll_vars, side_vars>>

\* queue.append(txn_id), then time.sleep(5) and the next iteration.
main_append ==
    /\ pc_m = "append"
    /\ queue' = Append(queue, m_txn)
    /\ enq' = Append(enq, m_txn)
    /\ pc_m' = AfterStep("append")
    /\ m_txn' = TxnAfterStep("append")
    /\ UNCHANGED <<seen_uids, seen_txn_ids, status, last_processed, env, started,
                   proc_locals, mqtt_frame, mqtt_hist, send_end, deq, poll_vars, side_vars>>

main_loop == main_poll \/ main_check \/ main_set_queued \/ main_log_payment \/ main_append

\* --------------------------------------------------------------- send_mqtt
\* How the try block of one attempt can end:
\*   connect_error  tls_set() or client.connect() raised: loop_start() was not
\*                  reached;
\*   ack_timeout    connect() and loop_start() ran, connected.wait(10) timed out;
\*   publish_error  connected, publish() returned rc # MQTT_ERR_SUCCESS;
\*   published      connected, publish() accepted: return True.
Outcomes == {"connect_error", "ack_timeout", "publish_error", "published"}

\* loop_start() has run in the attempt's try block.
LoopStarted(o) == o # "connect_error"

\* What client.is_connected() can answer in the finally block: False when the
\* client never got as far as loop_start(); otherwise True once CONNACK was
\* received and the connection is still up, False when it was not (yet)
\* received or the connection dropped.
IsConnectedAnswers(running) == IF running THEN BOOLEAN ELSE {FALSE}

\* finally: if 'client' in locals() and client.is_connected():
\*              client.loop_stop(); client.disconnect()
\* The value is whether the network loop is still running afterwards.
RunningAfterFinally(running, is_connected) == running /\ ~is_connected

SleepsBeforeRetry_always(a, m) == a <= m

\* except: if attempt < max_retries: time.sleep(retry_delay)
SleepsBeforeRetry(a, m) == a < m

\* for attempt in range(1, max_retries + 1): try: ... (one attempt's try block)
mqtt_try ==
    /\ pc_p = "send"
    /\ attempt < max_retries
    /\ attempt' = attempt + 1
    /\ \E o \in Outcomes :
         /\ outcome' = o
         /\ loop_running' = LoopStarted(o)
         /\ pc_p' = IF o = "published" THEN "finally"
                    ELSE IF SendMqttRaises(TRUE) THEN "dead" ELSE "except"
    /\ clients' = clients + 1
    /\ UNCHANGED <<globals, env, started, main_locals, p_txn, ok, max_retries,
                   sleeps, send_end, queue_hist, poll_vars, side_vars>>

\* except Exception: log, and sleep when attempts remain.
mqtt_except ==
    /\ pc_p = "except"
    /\ sleeps' = IF SleepsBeforeRetry(attempt, max_retries) THEN sleeps + 1 ELSE sleeps
    /\ pc_p' = "finally"
    /\ UNCHANGED <<globals, env, started, main_locals, p_txn, ok, mqtt_frame,
                   clients, send_end, queue_hist, poll_vars, side_vars>>

\* finally: ...; then return True after a successful try, else the next attempt.
mqtt_finally ==
    /\ pc_p = "finally"
    /\ \E is_connected \in IsConnectedAnswers(loop_running) :
         loop_running' = RunningAfterFinally(loop_running, is_connected)
    /\ IF outcome = "published"
       THEN /\ ok' = TRUE
            /\ send_end' = Now
            /\ pc_p' = "set_final"
            /\ UNCHANGED outcome
       ELSE /\ pc_p' = "send"
            /\ outcome' = "none"
            /\ UNCHANGED <<ok, send_end>>
    /\ UNCHANGED <<globals, env, started, main_locals, p_txn, max_retries,
                   attempt, sleeps, clients, queue_hist, poll_vars, side_vars>>

\* The for loop is exhausted: return False.
mqtt_exhausted ==
    /\ pc_p = "send"
    /\ attempt >= max_retries
    /\ ok' = FALSE
    /\ send_end' = Now
    /\ pc_p' = "set_final"
    /\ UNCHANGED <<globals, env, started, main_locals, p_txn, mqtt_frame,
                   mqtt_hist, queue_hist, poll_vars, side_vars>>

send_mqtt == mqtt_try \/ mqtt_except \/ mqtt_finally \/ mqtt_exhausted

\* --------------------------------------------------------------- processor
\* if not queue: time.sleep(1); continue
proc_check_queue ==
    /\ pc_p = "top"
    /\ pc_p' = IF queue = <<>> THEN "top" ELSE "cooldown"
    /\ UNCHANGED <<globals, env, started, main_locals, p_txn, ok, mqtt_frame,
                   mqtt_hist, send_end, queue_hist, poll_vars, side_vars>>

CooldownActive_short(t, last) == t - last < COOLDOWN_SECONDS - 1

CooldownActive_swapped(t, last) == last - t < COOLDOWN_SECONDS

\* now - last_processed < COOLDOWN_SECONDS
CooldownActive(t, last) == t - last < COOLDOWN_SECONDS

\* now = time.time(); if now - last_processed < COOLDOWN_SECONDS: sleep; continue
proc_check_cooldown ==
    /\ pc_p = "cooldown"
    /\ pc_p' = IF CooldownActive(Now, last_processed) THEN "top" ELSE "pop"
    /\ UNCHANGED <<globals, env, started, main_locals, p_txn, ok, mqtt_frame,
                   mqtt_hist, send_end, queue_hist, poll_vars, side_vars>>

popleft_peek(q) == <<Head(q), q>>

popleft_pop(q) == <<q[Len(q)], SubSeq(q, 1, Len(q) - 1)>>

\* queue.popleft(): the value is <<the item, the queue left>>.
popleft(q) == <<Head(q), Tail(q)>>

\* txn_id = queue.popleft()
proc_pop ==
    /\ pc_p = "pop"
    /\ p_txn' = popleft(queue)[1]
    /\ queue' = popleft(queue)[2]
    /\ deq' = Append(deq, p_txn')
    /\ pc_p' = "set_processing"
    /\ UNCHANGED <<seen_uids, seen_txn_ids, status, last_processed, env, started,
                   main_locals, ok, mqtt_frame, mqtt_hist, send_end, enq, poll_vars, side_vars>>

\* status[txn_id] = "Processing", then the call send_mqtt() with its defaults.
proc_set_processing ==
    /\ pc_p = "set_processing"
    /\ status' = [status EXCEPT ![p_txn] = "Processing"]
    /\ max_retries' = DefaultMaxRetries
    /\ attempt' = 0
    /\ outcome' = "none"
    /\ loop_running' = FALSE
    /\ sleeps' = 0
    /\ clients' = 0
    /\ pc_p' = "send"
    /\ UNCHANGED <<seen_uids, seen_txn_ids, queue, last_processed, env, started,
                   main_locals, p_txn, ok, send_end, queue_hist, poll_vars, side_vars>>

FinalStatus_requeue(o) == IF o THEN "Completed" ELSE "Queued"

FinalStatus_swapped(o) == IF o THEN "Failed" ELSE "Completed"

\* "Completed" if ok else "Failed"
FinalStatus(o) == IF o THEN "Completed" ELSE "Failed"

\* status[txn_id] = "Completed" if ok else "Failed"
proc_set_final ==
    /\ pc_p = "set_final"
    /\ status' = [status EXCEPT ![p_txn] = FinalStatus(ok)]
    /\ pc_p' = "set_last"
    \* txn_id and ok are not read again; send_mqtt's frame is gone
    /\ p_txn' = None
    /\ ok' = FALSE
    /\ attempt' = 0
    /\ outcome' = "none"
    /\ loop_running' = FALSE
    /\ sleeps' = 0
    /\ clients' = 0
    /\ UNCHANGED <<seen_uids, seen_txn_ids, queue, last_processed, env, started,
                   main_locals, max_retries, send_end, queue_hist, poll_vars, side_vars>>

StampAfterItem_send_end == send_end

\* time.time() in last_processed = time.time(): the clock when the statement
\* runs, whatever send_mqtt returned.
StampAfterItem == Now

\* last_processed = time.time()
proc_set_last ==
    /\ pc_p = "set_last"
    /\ last_processed' = StampAfterItem
    /\ pc_p' = "top"
    /\ UNCHANGED <<seen_uids, seen_txn_ids, queue, status, env, started,
                   main_locals, p_txn, ok, mqtt_frame, mqtt_hist, send_end,
                   queue_hist, poll_vars, side_vars>>

processor ==
    \/ proc_check_queue \/ proc_check_cooldown \/ proc_pop
    \/ proc_set_processing \/ send_mqtt \/ proc_set_final \/ proc_set_last

\* ------------------------------------------------------------- environment
\* A stored clock value one second further in the past.  Values saturate at
\* 0, the bottom of the window: Now - 0 = COOLDOWN_SECONDS, so a value at least
\* a cooldown old stays at least a cooldown old.
Older(t) == Max(0, t - 1)

\* One second passes.
tick ==
    /\ last_processed' = Older(last_processed)
    /\ send_end' = Older(send_end)
    /\ UNCHANGED <<seen_uids, seen_txn_ids, queue, status, mailbox, ledger,
                   started, main_locals, proc_locals, mqtt_frame, mqtt_hist,
                   queue_hist, poll_vars, side_vars>>

\* A message arrives in the inbox, unread.
deliver ==
    /\ Len(mailbox) < MaxMsgs
    /\ \E b \in Bodies : mailbox' = Append(mailbox, [body |-> b, unseen |-> TRUE])
    /\ UNCHANGED <<globals, ledger, started, main_locals, proc_locals,
                   mqtt_frame, mqtt_hist, send_end, queue_hist, poll_vars, side_vars>>

Next == start \/ main_loop \/ processor \/ tick \/ deliver

Spec == Init /\ [][Next]_vars

\* Both loops run for ever and every blocking call in them has a timeout, so a
\* thread that can take a step eventually takes it; and time passes.
LiveSpec == Spec /\ WF_vars(processor) /\ WF_vars(tick)

\* The same, with main_loop's thread scheduled fairly too.
LiveLoops == LiveSpec /\ WF_vars(main_loop)

\* A caller is inside send_mqtt(max_retries), for any argument from 0 up.
InitMqtt ==
    /\ seen_uids = {}
    /\ seen_txn_ids = {}
    /\ queue = <<>>
    /\ status = <<>>
    /\ last_processed = 0
    /\ mailbox = <<>>
    /\ ledger = [t \in TxnIds |-> 0]
    /\ started = TRUE
    /\ pc_m = "idle"
    /\ m_txn = None
    /\ pc_p = "send"
    /\ p_txn = None
    /\ ok = FALSE
    /\ max_retries \in 0..MaxRetriesArg
    /\ attempt = 0
    /\ outcome = "none"
    /\ loop_running = FALSE
    /\ sleeps = 0
    /\ clients = 0
    /\ send_end = 0
    /\ enq = <<>>
    /\ deq = <<>>
    /\ PollIdle
    /\ SideIdle

\* send_mqtt on its own; the thread running it keeps running.
SpecMqtt == InitMqtt /\ [][send_mqtt]_vars /\ WF_vars(send_mqtt)

\* ------------------------------------- poll_email, statement by statement
\* poll_email called from several threads at once, one action per statement
\* that touches the lock, the mailbox or seen_uids.  The messages keep their
\* bodies here, because the owner of the mailbox can mark a read message
\* unread again (mark_unread).
pipeline == <<queue, status, last_processed, ledger, started, main_locals,
              proc_locals, mqtt_frame, mqtt_hist, send_end, queue_hist>>

\* A thread calls poll_email().
poll_call(thr) ==
    /\ pc_t[thr] = "idle"
    /\ pc_t' = [pc_t EXCEPT ![thr] = "acquire"]
    /\ UNCHANGED <<seen_uids, seen_txn_ids, mailbox, imap_lock, todo, cur,
                   ret_t, poll_hist, pipeline, side_vars>>

CanAcquire_always(lock) == TRUE

\* threading.Lock(): acquire blocks until no thread holds the lock.
CanAcquire(lock) == lock = LockFree

\* with imap_lock:  (entering)
poll_acquire(thr) ==
    /\ pc_t[thr] = "acquire"
    /\ CanAcquire(imap_lock)
    /\ imap_lock' = thr
    /\ pc_t' = [pc_t EXCEPT ![thr] = "login"]
    /\ UNCHANGED <<seen_uids, seen_txn_ids, mailbox, todo, cur, ret_t, poll_hist,
                   pipeline, side_vars>>

\* How _imap_login(), mail.select and mail.search can end: _imap_login raises
\* (missing credentials, connection or login refused) and no session exists;
\* select or search raises inside the session; or all three answer.
LoginOutcomes == {"login_error", "select_error", "search_error", "ok"}

\* with _imap_login() as mail: mail.select("inbox");
\* _, data = mail.search(None, "(UNSEEN)"); the for loop's sequence.
poll_login(thr) ==
    /\ pc_t[thr] = "login"
    /\ logins' = [logins EXCEPT ![thr] = @ + 1]
    /\ \E o \in LoginOutcomes :
         IF o = "ok"
         THEN /\ todo' = [todo EXCEPT ![thr] =
                             Reverse(LastN(Unseen(mailbox, 1), RecentWindow))]
              /\ pc_t' = [pc_t EXCEPT ![thr] = "loop"]
              /\ UNCHANGED err_t
         ELSE /\ err_t' = [err_t EXCEPT ![thr] = TRUE]
              /\ pc_t' = [pc_t EXCEPT ![thr] =
                             IF o = "login_error" THEN "except" ELSE "logout"]
              /\ UNCHANGED todo
    /\ UNCHANGED <<seen_uids, seen_txn_ids, mailbox, imap_lock, cur, ret_t,
                   sources, considered, pipeline, side_vars>>

\* for uid in ...: if uid in seen_uids: continue
\* When the sequence is exhausted the with block is left and None returned.
poll_loop(thr) ==
    /\ pc_t[thr] = "loop"
    /\ IF todo[thr] = <<>>
       THEN /\ pc_t' = [pc_t EXCEPT ![thr] = "logout"]
            /\ UNCHANGED <<todo, cur>>
       ELSE /\ todo' = [todo EXCEPT ![thr] = Tail(@)]
            /\ IF SkipsSeen(Head(todo[thr]), seen_uids)
               THEN UNCHANGED <<pc_t, cur>>
               ELSE /\ cur' = [cur EXCEPT ![thr] = Head(todo[thr])]
                    /\ pc_t' = [pc_t EXCEPT ![thr] = "fetch"]
    /\ UNCHANGED <<seen_uids, seen_txn_ids, mailbox, imap_lock, ret_t, poll_hist,
                   pipeline, side_vars>>

\* How the fetch and the decoding of the body can end: mail.fetch raises; the
\* message is fetched and message_from_bytes / get_payload / decode raises;
\* or the body is in hand.
FetchOutcomes == {"fetch_error", "decode_error", "ok"}

\* _, msg_data = mail.fetch(uid, "(RFC822)"); the body; the three tests
\* (not body, not _is_valid_payment, txn_id in seen_txn_ids) that continue.
\* FETCH (RFC822) sets the \Seen flag of the message.
poll_fetch(thr) ==
    /\ pc_t[thr] = "fetch"
    /\ \E o \in FetchOutcomes :
         LET uid == cur[thr]
             body == mailbox[uid].body
         IN
         /\ IF o = "fetch_error"
            THEN UNCHANGED <<mailbox, considered>>
            ELSE /\ mailbox' = [mailbox EXCEPT ![uid].unseen = FALSE]
                 /\ considered' = considered \cup {uid}
         /\ IF o # "ok"
            THEN /\ err_t' = [err_t EXCEPT ![thr] = TRUE]
                 /\ pc_t' = [pc_t EXCEPT ![thr] = "logout"]
            ELSE /\ UNCHANGED err_t
                 /\ pc_t' = [pc_t EXCEPT ![thr] =
                       IF body.kind # "payment" \/ AlreadyRecorded(body.txn, seen_txn_ids)
                       THEN "loop" ELSE "accept"]
    /\ UNCHANGED <<seen_uids, seen_txn_ids, imap_lock, todo, cur, ret_t, logins,
                   sources, pipeline, side_vars>>

\* seen_uids.add(uid)
poll_accept(thr) ==
    /\ pc_t[thr] = "accept"
    /\ seen_uids' = seen_uids \cup {cur[thr]}
    /\ pc_t' = [pc_t EXCEPT ![thr] = "store"]
    /\ UNCHANGED <<seen_txn_ids, mailbox, imap_lock, todo, cur, ret_t, poll_hist,
                   pipeline, side_vars>>

\* mail.store(uid, "+FLAGS", "\\Seen"); log; return txn_id  (the value is
\* returned once the two with blocks have been left)
poll_store(thr) ==
    /\ pc_t[thr] = "store"
    /\ \E store_ok \in BOOLEAN :
         IF store_ok
         THEN /\ mailbox' = [mailbox EXCEPT ![cur[thr]].unseen = FALSE]
              /\ ret_t' = [ret_t EXCEPT ![thr] = mailbox[cur[thr]].body.txn]
              /\ UNCHANGED err_t
         ELSE /\ err_t' = [err_t EXCEPT ![thr] = TRUE]
              /\ UNCHANGED <<mailbox, ret_t>>
    /\ pc_t' = [pc_t EXCEPT ![thr] = "logout"]
    /\ UNCHANGED <<seen_uids, seen_txn_ids, imap_lock, todo, cur, logins,
                   sources, considered, pipeline, side_vars>>

\* Leaving with ... as mail: IMAP4.__exit__ calls logout() and swallows
\* OSError only; another exception of logout() replaces a pending return.
poll_logout(thr) ==
    /\ pc_t[thr] = "logout"
    /\ \E logout_ok \in BOOLEAN :
         IF logout_ok
         THEN /\ pc_t' = [pc_t EXCEPT ![thr] = IF err_t[thr] THEN "except" ELSE "release"]
              /\ UNCHANGED <<err_t, ret_t>>
         ELSE /\ pc_t' = [pc_t EXCEPT ![thr] = "except"]
              /\ err_t' = [err_t EXCEPT ![thr] = TRUE]
              /\ ret_t' = [ret_t EXCEPT ![thr] = None]
    /\ UNCHANGED <<seen_uids, seen_txn_ids, mailbox, imap_lock, todo, cur,
                   logins, sources, considered, pipeline, side_vars>>

WithLockExit_leak(lock, raised) == IF raised THEN lock ELSE LockFree

\* with imap_lock:  (leaving, by return, by falling out or by an exception)
WithLockExit(lock, raised) == LockFree

\* except Exception as e: log(...)
poll_except(thr) ==
    /\ pc_t[thr] = "except"
    /\ IF PollEmailRaises(TRUE)
       THEN /\ pc_t' = [pc_t EXCEPT ![thr] = "raised"]
            /\ imap_lock' = WithLockExit(imap_lock, TRUE)
       ELSE /\ pc_t' = [pc_t EXCEPT ![thr] = "release"]
            /\ UNCHANGED imap_lock
    /\ UNCHANGED <<seen_uids, seen_txn_ids, mailbox, todo, cur, ret_t, poll_hist,
                   pipeline, side_vars>>

\* The lock is released and the call returns ret_t[thr]: txn_id, or None.
\* The frame of the call is gone afterwards.
poll_release(thr) ==
    /\ pc_t[thr] = "release"
    /\ imap_lock' = WithLockExit(imap_lock, err_t[thr])
    /\ pc_t' = [pc_t EXCEPT ![thr] = "idle"]
    /\ sources' = IF ret_t[thr] # None THEN sources \cup {cur[thr]} ELSE sources
    /\ todo' = [todo EXCEPT ![thr] = <<>>]
    /\ cur' = [cur EXCEPT ![thr] = NoUid]
    /\ ret_t' = [ret_t EXCEPT ![thr] = None]
    /\ err_t' = [err_t EXCEPT ![thr] = FALSE]
    /\ logins' = [logins EXCEPT ![thr] = 0]
    /\ UNCHANGED <<seen_uids, seen_txn_ids, mailbox, considered, pipeline, side_vars>>

poller(thr) ==
    \/ poll_call(thr) \/ poll_acquire(thr) \/ poll_login(thr) \/ poll_loop(thr)
    \/ poll_fetch(thr) \/ poll_accept(thr) \/ poll_store(thr)
    \/ poll_logout(thr) \/ poll_except(thr) \/ poll_release(thr)

\* The owner of the mailbox marks a read message unread again.
mark_unread ==
    /\ \E uid \in 1..Len(mailbox) :
         /\ ~mailbox[uid].unseen
         /\ mailbox' = [mailbox EXCEPT ![uid].unseen = TRUE]
    /\ UNCHANGED <<globals, ledger, started, main_locals, proc_locals,
                   mqtt_frame, mqtt_hist, send_end, queue_hist, poll_vars, side_vars>>

\* The pipeline threads are left out.  Nothing is recorded, or one identifier
\* is (which one makes no difference to poll_email).
InitPoll ==
    /\ seen_uids = {}
    /\ seen_txn_ids \in {{}, {Min(TxnIds)}}
    /\ queue = <<>>
    /\ status = <<>>
    /\ last_processed = 0
    /\ mailbox = <<>>
    /\ ledger = [t \in TxnIds |-> IF t \in seen_txn_ids THEN 1 ELSE 0]
    /\ started = TRUE
    /\ pc_m = "idle"
    /\ m_txn = None
    /\ pc_p = "idle"
    /\ p_txn = None
    /\ ok = FALSE
    /\ max_retries = DefaultMaxRetries
    /\ attempt = 0
    /\ outcome = "none"
    /\ loop_running = FALSE
    /\ sleeps = 0
    /\ clients = 0
    /\ send_end = 0
    /\ enq = <<>>
    /\ deq = <<>>
    /\ PollIdle
    /\ SideIdle

NextPoll == (\E thr \in Pollers : poller(thr)) \/ deliver \/ mark_unread

SpecPoll == InitPoll /\ [][NextPoll]_vars

\* ------------------------------------- log_payment, statement by statement
\* tz_mumbai(), given the zones the host's database holds.  The handler
\* names ZoneInfoNotFoundError, which the module does not import (line 26
\* imports ZoneInfo only): when ZoneInfo("Asia/Mumbai") raises, evaluating the
\* except clause raises NameError and ZoneInfo("UTC") is never reached.
tz_mumbai(zs) == IF "Asia/Mumbai" \in zs THEN "Asia/Mumbai" ELSE "NameError"

\* The pipeline threads are not running.
PipelineIdle ==
    /\ seen_uids = {}
    /\ queue = <<>>
    /\ status = <<>>
    /\ last_processed = 0
    /\ mailbox = <<>>
    /\ started = TRUE
    /\ pc_m = "idle"
    /\ pc_p = "idle"
    /\ p_txn = None
    /\ ok = FALSE
    /\ max_retries = DefaultMaxRetries
    /\ attempt = 0
    /\ outcome = "none"
    /\ loop_running = FALSE
    /\ sleeps = 0
    /\ clients = 0
    /\ send_end = 0
    /\ enq = <<>>
    /\ deq = <<>>

log_frame == <<seen_uids, queue, status, last_processed, mailbox, started,
               main_locals, proc_locals, mqtt_frame, mqtt_hist, send_end,
               queue_hist, poll_vars, fn_vars, web_vars, clone_dir, ctx_vars,
               zones>>

\* sheet = _sheet()
log_sheet ==
    /\ pc_l = "sheet"
    /\ \E sheet_ok \in BOOLEAN : pc_l' = IF sheet_ok THEN "tz" ELSE "except"
    /\ UNCHANGED <<seen_txn_ids, ledger, l_tz, log_frame>>

\* now = datetime.now(tz_mumbai())
log_now ==
    /\ pc_l = "tz"
    /\ l_tz' = tz_mumbai(zones)
    /\ pc_l' = IF l_tz' \in Zones THEN "append" ELSE "except"
    /\ UNCHANGED <<seen_txn_ids, ledger, log_frame>>

\* sheet.append_row(row_data)
log_append_row ==
    /\ pc_l = "append"
    /\ \E append_ok \in BOOLEAN :
         IF append_ok
         THEN ledger' = [ledger EXCEPT ![m_txn] = @ + 1] /\ pc_l' = "add"
         ELSE UNCHANGED ledger /\ pc_l' = "except"
    /\ UNCHANGED <<seen_txn_ids, l_tz, log_frame>>

\* seen_txn_ids.add(txn_id); log; return
log_add ==
    /\ pc_l = "add"
    /\ seen_txn_ids' = seen_txn_ids \cup {m_txn}
    /\ pc_l' = "logged"
    /\ UNCHANGED <<ledger, l_tz, log_frame>>

\* except Exception as e: log(...); return
log_except ==
    /\ pc_l = "except"
    /\ pc_l' = IF LogPaymentRaises(TRUE) THEN "raised" ELSE "failed"
    /\ UNCHANGED <<seen_txn_ids, ledger, l_tz, log_frame>>

log_payment == log_sheet \/ log_now \/ log_append_row \/ log_add \/ log_except

\* A caller is inside log_payment(txn_id) for an identifier poll_email has
\* returned, so one that is not recorded; the host holds any set of zones.
InitLog ==
    /\ PipelineIdle
    /\ PollIdle
    /\ FnIdle
    /\ WebIdle
    /\ m_txn \in TxnIds
    /\ seen_txn_ids \in SUBSET (TxnIds \ {m_txn})
    /\ ledger = [t \in TxnIds |-> IF t \in seen_txn_ids THEN 1 ELSE 0]
    /\ zones \in SUBSET Zones
    /\ pc_l = "sheet"
    /\ l_tz = "none"

SpecLog == InitLog /\ [][log_payment]_vars

\* ------------------------------------------------------- the text functions
\* Everything of zenorc.py but the text functions is at rest.
ZenorcIdle ==
    /\ PipelineIdle
    /\ m_txn = None
    /\ seen_txn_ids = {}
    /\ ledger = [t \in TxnIds |-> 0]
    /\ PollIdle
    /\ LogIdle

fn_frame == <<globals, env, started, main_locals, proc_locals, mqtt_frame,
              mqtt_hist, send_end, queue_hist, poll_vars, log_vars, web_vars,
              clone_dir, ctx_vars, fn_body, fn_clock>>

\* "marker" in body_lc
Contains(b, marker) == \E i \in 1..Len(b) : b[i] = marker

\* _AMT_5_RE matched at i: the currency marker, any blanks and commas, the
\* digit 5, then a word boundary (the end of the body or a non-word
\* character; the optional .00 or ,00 begins with one).
AmountAt(b, i) ==
    /\ b[i] = "rs"
    /\ \E j \in (i + 1)..Len(b) :
          /\ \A k \in (i + 1)..(j - 1) : b[k] = "sp"
          /\ b[j] = "5"
          /\ j = Len(b) \/ b[j + 1] = "sp"

\* bool(_AMT_5_RE.search(body_lc))
AmountSearch(b) == \E i \in 1..Len(b) : AmountAt(b, i)

is_valid_payment_no_debit(b) == Contains(b, "credited") /\ AmountSearch(b)

\* _is_valid_payment(body_lc)
is_valid_payment(b) ==
    LET is_credit == Contains(b, "credited") /\ ~Contains(b, "debited")
        is_correct_amount == AmountSearch(b)
    IN  is_credit /\ is_correct_amount

\* The call _is_valid_payment(body_lc).
apply_is_valid ==
    /\ fn_out = <<>>
    /\ fn_out' = <<is_valid_payment(fn_body)>>
    /\ UNCHANGED fn_frame

InitValid ==
    /\ ZenorcIdle
    /\ WebIdle
    /\ fn_body \in BodiesOver(ValidTokens)
    /\ fn_clock = 0
    /\ fn_out = <<>>

SpecValid == InitValid /\ [][apply_is_valid]_vars

Digits8 == {"d1", "d2"}

\* patterns, in list order, each by the lead-ins it accepts before (\d{8,}).
patterns == << {"ref", "txref"}, {"txref", "txref_is"} >>

\* re.search(pat, body, re.IGNORECASE): the position of the leftmost match
\* at or after i, 0 when there is none.
RECURSIVE search(_, _, _)
search(pat, b, i) ==
    IF i >= Len(b) THEN 0
    ELSE IF b[i] \in pat /\ b[i + 1] \in Digits8 THEN i
    ELSE search(pat, b, i + 1)

\* The fallback f"TXN{int(time.time())}".
Fallback(clock) == <<"TXN", clock>>

\* The leftmost match of any pattern wins.
extract_leftmost(b, clock) ==
    LET m == {search(patterns[n], b, 1) : n \in 1..Len(patterns)} \ {0}
    IN  IF m = {} THEN Fallback(clock) ELSE <<b[Min(m) + 1]>>

\* for pat in patterns: match = re.search(...); if match: return match.group(1)
RECURSIVE first_match(_, _, _)
first_match(n, b, clock) ==
    IF n > Len(patterns) THEN Fallback(clock)
    ELSE LET at == search(patterns[n], b, 1)
         IN  IF at # 0 THEN <<b[at + 1]>> ELSE first_match(n + 1, b, clock)

\* _extract_txn_id(body), called when the clock shows clock.
extract_txn_id(b, clock) == first_match(1, b, clock)

\* The call _extract_txn_id(body).
apply_extract ==
    /\ fn_out = <<>>
    /\ fn_out' = extract_txn_id(fn_body, fn_clock)
    /\ UNCHANGED fn_frame

InitExtract ==
    /\ ZenorcIdle
    /\ WebIdle
    /\ fn_body \in BodiesOver(ExtractTokens)
    /\ fn_clock \in 0..MaxClock
    /\ fn_out = <<>>

SpecExtract == InitExtract /\ [][apply_extract]_vars

\* ---------------------------------------------------------- the web backend
\* The handlers are async functions without an await: each request runs from
\* its first statement to its answer before the next one starts.
web_frame == <<globals, env, started, main_locals, proc_locals, mqtt_frame,
               mqtt_hist, send_end, queue_hist, poll_vars, log_vars, fn_vars,
               ctx_vars>>

\* The dict get_session stores for a new session id.
EmptySession ==
    [history |-> <<>>, file_name |-> "None", analysis |-> "None",
     generated_file |-> "None"]

get_session_reset(S, sid) == (sid :> EmptySession) @@ S

\* get_session(session_id): SESSIONS after the call; the dict it returns is
\* the one stored under session_id.
get_session(S, sid) ==
    IF sid \notin DOMAIN S THEN (sid :> EmptySession) @@ S ELSE S

\* bool(value) of a session field.
Truthy(v) == v \notin {"None", ""}

\* str.startswith
StartsWith(str, prefix) ==
    Len(prefix) <= Len(str) /\ SubSeq(str, 1, Len(prefix)) = prefix

\* except Exception as e: raise HTTPException(status_code=500, detail=str(e))
\* around the whole body of a handler.  HTTPException is an Exception, so
\* the handler catches the ones its own body raises as well.
OuterExcept(code) == 500

\* session["history"].append(...)
Say(S, sid, role) == [S EXCEPT ![sid].history = Append(@, role)]

\* GET /api/history/{session_id}
req_history(sid) ==
    /\ resp' = Answer("history", sid, 200,
                       IF sid \in DOMAIN SESSIONS THEN "stored" ELSE "default",
                       "none", "none")
    /\ UNCHANGED <<SESSIONS, clone_dir, web_frame>>

\* The sort of URL git clone is run on.
UrlSort(url) == IF StartsWith(url, GITHUB) THEN "github" ELSE "other"

\* How the calls of ingest_endpoint to its environment can end: the API key
\* is missing; git clone fails; the path does not exist; the upload fails;
\* or all of them answer.
IngestOutcomes == {"no_key", "clone_failed", "no_path", "upload_failed", "ok"}

\* cleanup_temp_folder(session_id): what is left of the directory dir.
\* Nothing is done when it does not exist; shutil.rmtree removes it, or fails
\* on the way and the exception is printed and dropped (rm_ok is FALSE).
cleanup_temp_folder(dir, rm_ok) ==
    IF dir = "absent" THEN "absent"
    ELSE IF rm_ok THEN "absent" ELSE "present"

\* POST /api/ingest
req_ingest(sid, target, o) ==
    \E rm_ok \in BOOLEAN :
    LET S1 == get_session(SESSIONS, sid)
        is_url == StartsWith(target, HTTP)
        allowed == StartsWith(target, GITHUB)
        built == IF is_url THEN "clone" ELSE "path"
        \* subprocess.run(["git", "clone", url, target_dir]) is reached
        cloned == IF is_url THEN UrlSort(target) ELSE "none"
        \* clone_github_repo calls cleanup_temp_folder before it looks at url
        cleaned == cleanup_temp_folder(clone_dir[sid], rm_ok)
        \* git clone refuses a target directory that exists and is not empty
        clone_ok == cleaned = "absent" /\ o # "clone_failed"
    IN
    /\ Len(S1[sid].history) < MaxHist
    /\ o = "clone_failed" => is_url /\ allowed
    /\ o = "no_path" => ~is_url
    /\ IF o = "no_key"
       THEN /\ SESSIONS' = S1
            /\ resp' = Answer("ingest", sid, OuterExcept(500), "error", "none", "none")
            /\ UNCHANGED clone_dir
       ELSE IF is_url /\ ~allowed
       THEN /\ SESSIONS' = S1
            /\ resp' = Answer("ingest", sid, OuterExcept(400), "Security Error",
                               "none", "none")
            /\ clone_dir' = [clone_dir EXCEPT ![sid] = cleaned]
       ELSE IF o = "no_path" \/ (is_url /\ ~clone_ok)
       THEN /\ SESSIONS' = S1
            /\ resp' = Answer("ingest", sid, OuterExcept(500), "error", cloned, "none")
            /\ clone_dir' = IF is_url THEN [clone_dir EXCEPT ![sid] = cleaned]
                            ELSE clone_dir
       ELSE /\ clone_dir' = IF is_url THEN [clone_dir EXCEPT ![sid] = "present"]
                            ELSE clone_dir
            /\ IF o = "upload_failed"
               THEN /\ SESSIONS' = S1
                    /\ resp' = Answer("ingest", sid, OuterExcept(500), "error",
                                       cloned, built)
               ELSE /\ SESSIONS' = Say([S1 EXCEPT ![sid].file_name = "files/ctx"],
                                       sid, "system")
                    /\ resp' = Answer("ingest", sid, 200, "success", cloned, built)
    /\ UNCHANGED web_frame

HasRepo_always(session) == TRUE

\* not session["file_name"], negated
HasRepo(session) == Truthy(session.file_name)

\* How the model calls of a handler can end.  "empty" is an answer whose
\* text is the empty string, "no_file" an answer without a tool call.
ModelOutcomes == {"no_key", "model_failed", "empty", "no_file", "ok"}

\* POST /api/analyze
req_analyze(sid, o) ==
    LET S1 == get_session(SESSIONS, sid) IN
    /\ Len(S1[sid].history) < MaxHist
    /\ o \in {"no_key", "model_failed", "empty", "ok"}
    /\ IF ~HasRepo(S1[sid])
       THEN /\ SESSIONS' = S1
            /\ resp' = Answer("analyze", sid, OuterExcept(400), "No repo loaded.",
                               "none", "none")
       ELSE IF o \in {"no_key", "model_failed"}
       THEN /\ SESSIONS' = S1
            /\ resp' = Answer("analyze", sid, OuterExcept(500), "error", "none", "none")
       ELSE /\ SESSIONS' = Say([S1 EXCEPT ![sid].analysis =
                                     IF o = "empty" THEN "" ELSE "text"],
                               sid, "model")
            /\ resp' = Answer("analyze", sid, 200, "success", "none", "none")
    /\ UNCHANGED <<clone_dir, web_frame>>

\* POST /api/refactor
req_refactor(sid, o) ==
    LET S1 == get_session(SESSIONS, sid) IN
    /\ Len(S1[sid].history) < MaxHist
    /\ o \in {"no_key", "model_failed", "no_file", "ok"}
    /\ IF ~Truthy(S1[sid].analysis)
       THEN /\ SESSIONS' = S1
            /\ resp' = Answer("refactor", sid, OuterExcept(400),
                               "Run analysis first.", "none", "none")
       ELSE IF o \in {"no_key", "model_failed"}
       THEN /\ SESSIONS' = S1
            /\ resp' = Answer("refactor", sid, OuterExcept(500), "error", "none", "none")
       ELSE IF o = "no_file"
       THEN /\ SESSIONS' = S1
            /\ resp' = Answer("refactor", sid, 200, "no_file", "none", "none")
       ELSE /\ SESSIONS' = Say([S1 EXCEPT ![sid].generated_file = "out.py"],
                               sid, "model")
            /\ resp' = Answer("refactor", sid, 200, "success", "none", "none")
    /\ UNCHANGED <<clone_dir, web_frame>>

\* POST /api/chat.  The user entry is appended before the model is called;
\* "model_failed" is an exception of generate_content or of what follows it
\* (response.text, save_code_tool).
req_chat(sid, o) ==
    LET S1 == get_session(SESSIONS, sid)
        S2 == Say(S1, sid, "user")
    IN
    /\ Len(S1[sid].history) + 2 <= MaxHist
    /\ o \in {"no_key", "model_failed", "ok"}
    /\ IF o = "no_key"
       THEN /\ SESSIONS' = S1
            /\ resp' = Answer("chat", sid, OuterExcept(500), "error", "none", "none")
       ELSE IF o = "model_failed"
       THEN /\ SESSIONS' = S2
            /\ resp' = Answer("chat", sid, OuterExcept(500), "model error",
                               "none", "none")
       ELSE /\ SESSIONS' = Say(S2, sid, "model")
            /\ resp' = Answer("chat", sid, 200, "reply", "none", "none")
    /\ UNCHANGED <<clone_dir, web_frame>>

InitWeb == ZenorcIdle /\ FnIdle /\ WebIdle

NextWeb ==
    \E sid \in Sids :
        \/ req_history(sid)
        \/ \E target \in Targets, o \in IngestOutcomes : req_ingest(sid, target, o)
        \/ \E o \in ModelOutcomes : req_analyze(sid, o)
        \/ \E o \in ModelOutcomes : req_refactor(sid, o)
        \/ \E o \in ModelOutcomes : req_chat(sid, o)

SpecWeb == InitWeb /\ [][NextWeb]_vars

\* ---------------------------------------------------------- create_context
ctx_frame == <<globals, env, started, main_locals, proc_locals, mqtt_frame,
               mqtt_hist, send_end, queue_hist, poll_vars, log_vars, fn_vars,
               web_vars, clone_dir, fs_tree>>

\* The files one directory can hold, as the lengths of their chunks.
FilesOfDir == UNION {[1..n -> ChunkLens] : n \in 0..MaxFiles}

\* break inside for file in files: the innermost loop is left, and os.walk
\* goes on with the next directory.
AfterBreak(d, f) == <<d + 1, 1>>

\* The chunk of file f of directory d, len characters of it.
text_chunk(d, f, len) == [i \in 1..len |-> <<d, f>>]

\* for root, dirs, files in os.walk(root_path): the files of a directory are
\* done and the next directory is taken.
ctx_next_dir ==
    /\ walk_at[1] \in 1..Len(fs_tree)
    /\ walk_at[2] > Len(fs_tree[walk_at[1]])
    /\ walk_at' = <<walk_at[1] + 1, 1>>
    /\ UNCHANGED <<content, current_size, file_count, exceeded, ctx_frame>>

\* One pass of for file in files.  usable: the extension is allowed and the
\* file is read and decoded (else the pass does nothing: the if, or
\* except: pass).
ctx_file ==
    /\ walk_at[1] \in 1..Len(fs_tree)
    /\ walk_at[2] \in 1..Len(fs_tree[walk_at[1]])
    /\ LET d == walk_at[1]
           f == walk_at[2]
           len == fs_tree[d][f]
       IN  \E usable \in BOOLEAN :
             IF ~usable
             THEN /\ walk_at' = <<d, f + 1>>
                  /\ UNCHANGED <<content, current_size, file_count, exceeded>>
             ELSE IF current_size + len > MAX_SIZE
             THEN /\ walk_at' = AfterBreak(d, f)
                  /\ exceeded' = TRUE
                  /\ UNCHANGED <<content, current_size, file_count>>
             ELSE /\ content' = content \o text_chunk(d, f, len)
                  /\ current_size' = current_size + len
                  /\ file_count' = file_count + 1
                  /\ walk_at' = <<d, f + 1>>
                  /\ UNCHANGED exceeded
    /\ UNCHANGED ctx_frame

create_context == ctx_next_dir \/ ctx_file

InitCtx ==
    /\ ZenorcIdle
    /\ FnIdle
    /\ SessionsIdle
    /\ fs_tree \in [1..Len(WalkDirs) -> FilesOfDir]
    /\ walk_at = <<1, 1>>
    /\ content = <<>>
    /\ current_size = 0
    /\ file_count = 0
    /\ exceeded = FALSE

SpecCtx == InitCtx /\ [][create_context]_vars

\* ================================================================== claims
Terminal == {"Completed", "Failed"}

NoDuplicates(s) == \A i, j \in 1..Len(s) : s[i] = s[j] => i = j

\* What one step may do to the status entry of t.
StatusStep(t) ==
    IF t \notin DOMAIN status
    THEN t \in DOMAIN status' => status'[t] = "Queued"
    ELSE /\ t \in DOMAIN status'
         /\ \/ status'[t] = status[t]
            \/ status[t] = "Queued" /\ status'[t] = "Processing"
            \/ status[t] = "Processing" /\ status'[t] \in Terminal

\* C1: a status entry is created as Queued and then only moves Queued ->
\* Processing -> Completed or Failed; it never moves backward, never skips
\* Processing and never changes after Completed or Failed.
C1_StatusLifecycle == [][\A t \in TxnIds : StatusStep(t)]_vars

\* Both terminal statuses have been reached, by different identifiers.
C1_Witness ==
    \E t, u \in DOMAIN status : status[t] = "Completed" /\ status[u] = "Failed"

\* C2: under fair scheduling of the processor and advancing time, every
\* identifier in the queue eventually is out of the queue with status
\* Completed or Failed.
C2_EventuallyTerminal ==
    \A t \in TxnIds :
        (t \in Range(queue)) ~>
            (t \notin Range(queue) /\ t \in DOMAIN status /\ status[t] \in Terminal)

\* An identifier that had to wait out a cooldown in the queue has left it and
\* reached a terminal status.
C2_Witness ==
    /\ Len(deq) = 2
    /\ queue = <<>>
    /\ \A t \in Range(deq) : status[t] \in Terminal

\* C3: no identifier is appended to the queue twice or removed from it twice,
\* and main_loop appends an identifier only in the iteration that created
\* its status entry.
C3_QueuedOnce ==
    /\ NoDuplicates(enq)
    /\ NoDuplicates(deq)
    /\ pc_m \in {"log_payment", "append"} => m_txn \notin Range(enq)
    /\ Range(enq) \subseteq DOMAIN status

\* poll_email has returned again an identifier that was queued and has
\* finished, and main_loop is about to drop it.
C3_Witness ==
    /\ pc_m = "check"
    /\ m_txn \in Range(deq)
    /\ m_txn \in DOMAIN status
    /\ status[m_txn] \in Terminal

Last(s) == s[Len(s)]

\* main_loop appends t to the queue in this step.
Appends(t) == enq' # enq /\ Last(enq') = t

\* poll_email returns t in this step.
PollReturns(t) == pc_m = "poll" /\ pc_m' = "check" /\ m_txn' = t

\* C4 as stated: once an identifier is in seen_txn_ids, no poll_email returns
\* it and main_loop never appends it to the queue.
C4_Original ==
    [][\A t \in seen_txn_ids : ~PollReturns(t) /\ ~Appends(t)]_vars

\* C4 amended: once an identifier is in seen_txn_ids no poll_email returns it,
\* so the identifier a main_loop iteration carries is unrecorded up to its
\* log_payment call; the only append of a recorded identifier is the one that
\* follows the log_payment call of the same iteration.
C4_NeverRequeued ==
    [][/\ \A t \in seen_txn_ids : ~PollReturns(t)
       /\ pc_m \in {"check", "set_queued", "log_payment"} => m_txn \notin seen_txn_ids
       /\ \A t \in seen_txn_ids : Appends(t) => pc_m = "append" /\ m_txn = t]_vars

\* An identifier was recorded by log_payment and appended in that iteration;
\* a later poll_email has fetched and skipped a message and returned nothing.
C4_Witness ==
    /\ pc_m = "check"
    /\ m_txn = None
    /\ \E t \in seen_txn_ids : t \in Range(enq) /\ ledger[t] = 1
    /\ \E uid \in 1..Len(mailbox) :
          /\ ~mailbox[uid].unseen
          /\ uid \notin seen_uids
          /\ \A u \in seen_uids : u < uid

\* C5: the processor dequeues only when at least COOLDOWN_SECONDS have passed
\* since the previous send_mqtt call returned (send_end, 0 before any call), and while the cooldown has not
\* elapsed its step leaves the queue and the status mapping unchanged and goes
\* back to re-check.
C5_Cooldown ==
    [][/\ deq' # deq => Now - send_end >= COOLDOWN_SECONDS
       /\ (pc_p = "cooldown" /\ pc_p' # pc_p
             /\ Now - last_processed < COOLDOWN_SECONDS) =>
            (pc_p' = "top" /\ UNCHANGED <<queue, status, deq>>)]_vars

\* A second identifier is waiting in the queue while the cooldown that follows
\* the first publish is still running.
C5_Witness ==
    /\ pc_p = "cooldown"
    /\ Len(deq) = 1
    /\ queue # <<>>
    /\ send_end > 0
    /\ Now - last_processed < COOLDOWN_SECONDS

\* send_mqtt has returned and its value is in ok.
Returned == pc_p = "set_final"

\* C6: send_mqtt returns after at most max_retries attempts, each on its own
\* client; it returns True at the first attempt whose publish was accepted,
\* without a further attempt; it sleeps after a failed attempt only when an
\* attempt remains; it returns False exactly when max_retries attempts failed.
C6_BoundedRetries ==
    /\ [](/\ attempt <= max_retries
          /\ clients = attempt
          /\ Returned =>
               /\ ok <=> outcome = "published"
               /\ ok => sleeps = attempt - 1
               /\ ~ok => attempt = max_retries /\ sleeps = Max(0, max_retries - 1))
    /\ [][(pc_p = "finally" /\ outcome = "published") =>
              (Returned' /\ ok' /\ attempt' = attempt)]_vars
    /\ <>Returned

\* Two attempts failed, each followed by a sleep, and the third published.
C6_Witness ==
    /\ Returned
    /\ ok
    /\ attempt = 3
    /\ sleeps = 2

\* C7: when an attempt of send_mqtt is over (the next one is about to start or
\* the call has returned) the network loop started for it is not running any
\* more.
C7_TeardownEveryAttempt == pc_p \in {"send", "set_final"} => ~loop_running

\* C8: log_payment adds the identifier to seen_txn_ids exactly when the row was
\* appended to the sheet and otherwise leaves seen_txn_ids as it was; in both
\* cases main_loop's next step appends the identifier to the queue.
C8_RecordedIffAppended ==
    [][/\ (pc_m = "log_payment" /\ pc_m' # pc_m) =>
            /\ pc_m' = "append"
            /\ m_txn' = m_txn
            /\ m_txn \notin seen_txn_ids
            /\ ledger'[m_txn] = ledger[m_txn] + 1 =>
                   seen_txn_ids' = seen_txn_ids \cup {m_txn}
            /\ ledger'[m_txn] # ledger[m_txn] + 1 =>
                   (ledger' = ledger /\ seen_txn_ids' = seen_txn_ids)
       /\ (pc_m = "append" /\ pc_m' # pc_m) =>
            (queue' = Append(queue, m_txn) /\ enq' = Append(enq, m_txn))]_vars

\* An identifier is in the queue although no row was ever appended for it: it
\* is neither in the sheet nor in seen_txn_ids.
C8_Witness ==
    \E t \in Range(queue) : ledger[t] = 0 /\ t \notin seen_txn_ids

\* C9: at most one identifier has status Processing, and no identifier with
\* status Processing is in the queue.
C9_OneInFlight ==
    /\ Cardinality({t \in DOMAIN status : status[t] = "Processing"}) <= 1
    /\ \A t \in DOMAIN status : status[t] = "Processing" => t \notin Range(queue)

\* One identifier is being published while another waits in the queue.
C9_Witness ==
    /\ pc_p = "send"
    /\ status[p_txn] = "Processing"
    /\ queue # <<>>

\* C10: identifiers leave the queue in the order they entered it: what has been
\* dequeued, followed by the queue, is what has been enqueued.
C10_Fifo == enq = deq \o queue

\* Two identifiers have been appended and the one appended first is the one
\* that was dequeued, the other is still in the queue.
C10_Witness ==
    /\ Len(enq) = 2
    /\ Len(deq) = 1
    /\ Len(queue) = 1
    /\ pc_p = "set_processing"
    /\ p_txn = enq[1]

\* C11: a UID that is in seen_uids is never fetched or accepted again, so no
\* later invocation of poll_email returns an identifier taken from its message:
\* the UID of a result about to be returned has not been the source of a
\* returned result before.
C11_SeenUidNeverAgain ==
    /\ sources \subseteq seen_uids
    /\ \A thr \in Pollers :
         /\ pc_t[thr] \in {"fetch", "accept"} => cur[thr] \notin seen_uids
         /\ (pc_t[thr] = "release" /\ ret_t[thr] # None) =>
                (cur[thr] \in seen_uids /\ cur[thr] \notin sources)

\* The message of a returned identifier has been marked unread again, a later
\* invocation has found it in its search and is about to skip it.
C11_Witness ==
    \E thr \in Pollers :
        /\ pc_t[thr] = "loop"
        /\ todo[thr] # <<>>
        /\ Head(todo[thr]) \in sources
        /\ mailbox[Head(todo[thr])].unseen

\* C12: no exception leaves poll_email.  An invocation in which a call raised
\* (login, select, search, fetch, decoding, store, logout) sends no further
\* command to the mailbox and returns None; no invocation logs in twice; and
\* every invocation works on the session of its own login.
C12_PollNeverRaises ==
    \A thr \in Pollers :
        /\ pc_t[thr] # "raised"
        /\ logins[thr] <= 1
        /\ err_t[thr] =>
              (pc_t[thr] \in {"logout", "except", "release"} /\ ret_t[thr] = None)
        /\ pc_t[thr] \in {"loop", "fetch", "accept", "store"} => logins[thr] = 1
        /\ pc_t[thr] \in {"idle", "acquire", "login"} => logins[thr] = 0

\* A call raised while the invocation had a message in hand; the exception
\* has been caught and the invocation is about to return None.
C12_Witness ==
    \E thr \in Pollers :
        /\ pc_t[thr] = "release"
        /\ err_t[thr]
        /\ cur[thr] # NoUid
        /\ ret_t[thr] = None

\* The thread is between login and logout on the mailbox.
InSession(thr) == pc_t[thr] \in {"loop", "fetch", "accept", "store", "logout"}

\* The thread is inside the with imap_lock block.
InLockBlock(thr) == InSession(thr) \/ pc_t[thr] \in {"login", "except", "release"}

\* C13: at most one thread at a time is between login and logout, and
\* imap_lock is held exactly by the thread that is inside the with block: a
\* thread that has left poll_email, by whatever path, does not hold it.
C13_OneSession ==
    /\ Cardinality({thr \in Pollers : InSession(thr)}) <= 1
    /\ \A thr \in Pollers : InLockBlock(thr) <=> imap_lock = thr

\* One thread is in its session after a call raised, on its way out, while
\* the other waits for the lock.
C13_Witness ==
    \E a, b \in Pollers :
        /\ pc_t[a] = "logout"
        /\ err_t[a]
        /\ pc_t[b] = "acquire"

\* C18: a message that an invocation of poll_email has fetched is never
\* fetched by a later invocation, whatever became of it.
C18_ConsideredSkipped ==
    \A thr \in Pollers : pc_t[thr] = "fetch" => cur[thr] \notin considered

\* This step is a statement of main_loop / of processor.
MainStep == pc_m # "idle" /\ pc_m' # pc_m

ProcStep == pc_p # "idle" /\ pc_p' # pc_p

\* This step is last_processed = time.time().
SetsLast == pc_p = "set_last" /\ pc_p' # pc_p

\* C14: a statement of main_loop leaves the queue as it was or with one
\* identifier appended, leaves every existing status entry as it was, creates
\* entries only as Queued and does not write last_processed; a statement of
\* processor leaves the queue as it was or with its head removed, creates and
\* deletes no status entry and leaves seen_uids and seen_txn_ids as they were;
\* and outside a statement of processor last_processed only ages.
C14_SingleWriter ==
    [][/\ MainStep =>
            /\ queue' = queue \/ \E t \in TxnIds : queue' = Append(queue, t)
            /\ \A t \in DOMAIN status : t \in DOMAIN status' /\ status'[t] = status[t]
            /\ \A t \in DOMAIN status' \ DOMAIN status : status'[t] = "Queued"
            /\ last_processed' = last_processed
       /\ ProcStep =>
            /\ queue' = queue \/ (queue # <<>> /\ queue' = Tail(queue))
            /\ DOMAIN status' = DOMAIN status
            /\ seen_uids' = seen_uids
            /\ seen_txn_ids' = seen_txn_ids
       /\ ~ProcStep => last_processed' \in {last_processed, Older(last_processed)}
       /\ queue' # queue => MainStep \/ ProcStep]_vars

\* main_loop is about to append a second identifier while the processor is
\* about to write the final status of the first.
C14_Witness ==
    /\ pc_m = "append"
    /\ pc_p = "set_final"
    /\ Cardinality(DOMAIN status) = 2

\* C15: the status the processor writes when send_mqtt has returned is
\* Completed when it returned True and Failed when it returned False, which it
\* does only after max_retries failed attempts; an identifier whose status is
\* Failed is not in the queue, is not appended to it, is not dequeued and is
\* not the one being published.
C15_FinalStatus ==
    [][/\ (pc_p = "set_final" /\ pc_p' # pc_p) =>
            /\ ok => status'[p_txn] = "Completed"
            /\ ~ok => (status'[p_txn] = "Failed" /\ attempt = max_retries)
            /\ ok <=> outcome = "published"
       /\ \A t \in DOMAIN status : status[t] = "Failed" =>
            /\ t \notin Range(queue)
            /\ ~Appends(t)
            /\ deq' = deq
                 \/ Last(deq') # t
            /\ p_txn # t /\ p_txn' # t
            /\ status'[t] = "Failed"]_vars

\* poll_email has returned again an identifier whose publish failed, and
\* main_loop is about to drop it.
C15_Witness ==
    /\ pc_m = "check"
    /\ m_txn \in DOMAIN status
    /\ status[m_txn] = "Failed"

\* C16 as stated: last_processed holds the time of the last successful
\* publish, so it has its initial value as long as no publish has succeeded.
C16_Original ==
    (\A t \in DOMAIN status : status[t] # "Completed") => last_processed = 0

\* C16 amended: last_processed is written by the processor only, once per
\* dequeued identifier, after its final status (Completed or Failed) has been
\* written, with the clock of that moment; otherwise it only ages.  It has
\* its initial value while nothing has been dequeued, and between two
\* identifiers it is not older than the return of the last send_mqtt call.
C16_ClockOfLastItem ==
    [][/\ SetsLast => (last_processed' = Now /\ status[Last(deq)] \in Terminal)
       /\ ~SetsLast => last_processed' \in {last_processed, Older(last_processed)}
       /\ deq = <<>> => last_processed = 0
       /\ (pc_p \in {"top", "cooldown", "pop"} /\ deq # <<>>) =>
             last_processed >= send_end]_vars

\* The only identifier processed so far has failed, and the cooldown clock
\* was set when it was finished.
C16_Witness ==
    /\ pc_p = "top"
    /\ Len(deq) = 1
    /\ status[deq[1]] = "Failed"
    /\ last_processed = Now

\* C17: one invocation of poll_email turns at most one unread message into a
\* read one and adds at most one UID to seen_uids, and when it returns an
\* identifier the UID it added is that of a message now read.
C17_AtMostOne ==
    [][(pc_m = "poll" /\ pc_m' # pc_m) =>
          /\ Cardinality({u \in 1..Len(mailbox) :
                             mailbox[u].unseen /\ ~mailbox'[u].unseen}) <= 1
          /\ Cardinality(seen_uids' \ seen_uids) <= 1
          /\ m_txn' # None =>
                \E u \in seen_uids' \ seen_uids : ~mailbox'[u].unseen]_vars

\* C19: start() starts both loops whether or not the ledger could be read,
\* with seen_txn_ids the set of identifiers in the ledger column or, when
\* reading raised, the empty set: _bootstrap_txns yields exactly these.
C19_StartSurvivesLedger ==
    /\ [](/\ bootstrap_txns(FALSE) = {}
          /\ \A t \in TxnIds : t \in bootstrap_txns(TRUE) <=> ledger[t] >= 1)
    /\ [][(~started /\ started') =>
              /\ pc_m' = "poll"
              /\ pc_p' = "top"
              /\ seen_txn_ids' \in {bootstrap_txns(FALSE), bootstrap_txns(TRUE)}]_vars

\* The ledger holds identifiers, reading it failed, and both loops run with
\* nothing recorded.
C19_Witness ==
    /\ started
    /\ pc_m = "poll"
    /\ pc_p = "top"
    /\ seen_txn_ids = {}
    /\ seen_uids = {}
    /\ \E t \in TxnIds : ledger[t] >= 1

\* C20: no failure of the mailbox, the ledger or the broker ends a loop:
\* neither thread is ever dead, and wherever a thread is in its loop body it
\* comes back to the top of its loop.
C20_LoopsGoOn ==
    /\ [](pc_m # "dead" /\ pc_p # "dead")
    /\ (pc_m # "idle") ~> (pc_m = "poll")
    /\ (pc_p # "idle") ~> (pc_p = "top")

\* An identifier was queued although its ledger row could not be written,
\* its publish failed on every attempt, a poll_email call has failed after
\* accepting a message, and both loops are at the top of their next iteration.
C20_Witness ==
    /\ pc_m = "poll"
    /\ pc_p = "top"
    /\ \E t \in DOMAIN status :
          status[t] = "Failed" /\ ledger[t] = 0 /\ t \notin seen_txn_ids
    /\ Cardinality(seen_uids) > Len(enq)

\* C21: on a host that holds the UTC zone, what tz_mumbai gives is the
\* regional zone when the host holds it and the UTC zone when it does not; it
\* is never an exception, so log_payment never reaches its handler because of
\* the zone.
C21_TzFallsBack ==
    "UTC" \in zones =>
        /\ l_tz # "none" =>
              l_tz = (IF "Asia/Mumbai" \in zones THEN "Asia/Mumbai" ELSE "UTC")
        /\ (pc_l \in {"except", "failed"} /\ l_tz # "none") => l_tz \in Zones

\* C22: _is_valid_payment answers true exactly for the bodies that contain
\* the credited marker, do not contain the debited marker and contain a match
\* of the amount pattern.
C22_ValidIffAllThree ==
    fn_out # <<>> =>
        (fn_out[1] <=>
            /\ "credited" \in Range(fn_body)
            /\ "debited" \notin Range(fn_body)
            /\ \E i \in 1..Len(fn_body) : AmountAt(fn_body, i))

\* A body with the credited marker and the amount that also holds the debited
\* marker has been rejected.
C22_Witness ==
    /\ fn_out = <<FALSE>>
    /\ "credited" \in Range(fn_body)
    /\ "debited" \in Range(fn_body)
    /\ AmountSearch(fn_body)

\* The positions where a lead-in of pattern n is followed by a long digit run.
MatchesOf(n, b) == {i \in 1..(Len(b) - 1) : b[i] \in patterns[n] /\ b[i + 1] \in Digits8}

\* C23: _extract_txn_id gives the digit run of the leftmost match of the
\* first pattern when the first pattern matches; else that of the leftmost
\* match of the second pattern when that one matches; else TXN followed by
\* the clock.
C23_FirstPatternWins ==
    fn_out # <<>> =>
        LET m1 == MatchesOf(1, fn_body)
            m2 == MatchesOf(2, fn_body)
        IN  /\ m1 # {} => fn_out = <<fn_body[Min(m1) + 1]>>
            /\ (m1 = {} /\ m2 # {}) => fn_out = <<fn_body[Min(m2) + 1]>>
            /\ (m1 = {} /\ m2 = {}) => fn_out = <<"TXN", fn_clock>>

\* The second pattern matches earlier in the body than the first, on another
\* digit run, and the digit run of the first pattern has been returned.
C23_Witness ==
    /\ fn_body = <<"txref_is", "d1", "ref", "d2">>
    /\ fn_out = <<"d2">>

\* The identifiers the processor holds or can take: those in the queue and
\* the one it has dequeued.
WithProcessor == Range(queue) \cup ({p_txn} \ {None})

\* C24: the producer sets Queued, then calls log_payment, then appends; so no
\* identifier is in the queue or with the processor while the producer has
\* still to set its status or to finish its ledger record attempt, and every
\* identifier in the queue has status Queued.
C24_LedgerThenQueue ==
    /\ pc_m \in {"log_payment", "append"} =>
          m_txn \in DOMAIN status /\ m_txn \notin Range(enq)
    /\ pc_m \in {"set_queued", "log_payment"} => m_txn \notin WithProcessor
    /\ \A i \in 1..Len(queue) :
          queue[i] \in DOMAIN status /\ status[queue[i]] = "Queued"

\* The processor is publishing for one identifier, whose ledger record
\* attempt failed, while the producer is in the ledger record attempt of the
\* next one.
C24_Witness ==
    /\ pc_p = "send"
    /\ p_txn # None
    /\ ledger[p_txn] = 0
    /\ pc_m = "log_payment"
    /\ m_txn # p_txn

\* C27: once no call of poll_email is in progress, every UID in seen_uids is
\* the source of an identifier that a call has returned; a call that returned
\* None has added nothing.
C27_SeenOnlyIfReturned ==
    (\A thr \in Pollers : pc_t[thr] = "idle") => seen_uids \subseteq sources

\* The details of the three precondition failures.
PreconditionDetails == {"No repo loaded.", "Run analysis first.", "Security Error"}

\* C25: a request that fails a precondition (analyze without a file, refactor
\* without an analysis, ingest of an http URL outside https://github.com/)
\* is answered with status 400.
C25_PreconditionIs400 ==
    resp.detail \in PreconditionDetails => resp.code = 400

\* C26: git clone is never run on a URL that does not start with
\* https://github.com/, and every context is built from the clone of a URL
\* that does.
C26_OnlyGithubIngested ==
    /\ resp.cloned # "other"
    /\ resp.built # "none" => (resp.built = "clone" /\ resp.cloned = "github")

\* The fields of a stored session that are set (not None).
IsSet(v) == v # "None"

\* C28: in every session analysis is set only if file_name is, and
\* generated_file only if analysis is; no request resets one of the three
\* fields to None or drops a session.
C28_FieldsOrdered ==
    [][/\ \A sid \in DOMAIN SESSIONS' :
            /\ IsSet(SESSIONS'[sid].analysis) => IsSet(SESSIONS'[sid].file_name)
            /\ IsSet(SESSIONS'[sid].generated_file) => IsSet(SESSIONS'[sid].analysis)
       /\ \A sid \in DOMAIN SESSIONS :
            /\ sid \in DOMAIN SESSIONS'
            /\ IsSet(SESSIONS[sid].file_name) => IsSet(SESSIONS'[sid].file_name)
            /\ IsSet(SESSIONS[sid].analysis) => IsSet(SESSIONS'[sid].analysis)
            /\ IsSet(SESSIONS[sid].generated_file) =>
                  IsSet(SESSIONS'[sid].generated_file)]_vars

\* A refactor request has set generated_file in a session that was ingested
\* and analysed before.
C28_Witness ==
    \E sid \in DOMAIN SESSIONS :
        /\ SESSIONS[sid].generated_file = "out.py"
        /\ SESSIONS[sid].analysis = "text"
        /\ SESSIONS[sid].file_name = "files/ctx"
        /\ resp = Answer("refactor", sid, 200, "success", "none", "none")

\* C29: a history request leaves SESSIONS as it is and answers the default
\* for an unknown session id; any other request leaves the sessions of other
\* ids as they are, stores the empty session under an id that was unknown
\* before it makes its own changes, and keeps working on the stored session
\* of a known id (which it leaves as it is when it fails before its first
\* write).
C29_HistoryReadsGetSessionCreates ==
    [][LET sid == resp'.sid IN
       IF resp'.ep = "history"
       THEN /\ SESSIONS' = SESSIONS
            /\ sid \notin DOMAIN SESSIONS => resp'.detail = "default"
       ELSE /\ DOMAIN SESSIONS' = DOMAIN SESSIONS \cup {sid}
            /\ \A other \in DOMAIN SESSIONS \ {sid} :
                  SESSIONS'[other] = SESSIONS[other]
            /\ (sid \notin DOMAIN SESSIONS /\ resp'.code # 200 /\ resp'.detail # "model error")
                  => SESSIONS'[sid] = EmptySession
            /\ (sid \in DOMAIN SESSIONS /\ resp'.code # 200 /\ resp'.detail # "model error")
                  => SESSIONS'[sid] = SESSIONS[sid]]_vars

\* A history request for an unknown id has been answered while another
\* session is stored, and no session was created for it.
C29_Witness ==
    /\ resp = Answer("history", resp.sid, 200, "default", "none", "none")
    /\ DOMAIN SESSIONS # {}
    /\ resp.sid \notin DOMAIN SESSIONS

\* The history of session sid in S, empty when there is none.
HistoryOf(S, sid) == IF sid \in DOMAIN S THEN S[sid].history ELSE <<>>

\* s is the beginning of t.
IsPrefix(s, t) == Len(s) <= Len(t) /\ SubSeq(t, 1, Len(s)) = s

\* C30: no request removes, rewrites or reorders history entries; a
\* successful chat appends one user entry and then one model entry; a chat
\* that fails in or after the model call leaves the history as it was.
C30_ChatHistory ==
    [][/\ \A sid \in DOMAIN SESSIONS :
            IsPrefix(SESSIONS[sid].history, HistoryOf(SESSIONS', sid))
       /\ (resp'.ep = "chat" /\ resp'.code = 200) =>
            HistoryOf(SESSIONS', resp'.sid) =
                HistoryOf(SESSIONS, resp'.sid) \o <<"user", "model">>
       /\ (resp'.ep = "chat" /\ resp'.detail = "model error") =>
            HistoryOf(SESSIONS', resp'.sid) = HistoryOf(SESSIONS, resp'.sid)]_vars

\* C32: an ingest request that is rejected because its URL does not start
\* with https://github.com/ leaves the clone directory of every session as
\* it was.
C32_RejectedCloneKeepsDir ==
    [][(resp'.ep = "ingest" /\ resp'.detail = "Security Error") =>
          clone_dir' = clone_dir]_vars

\* current_size is the length of content and within MAX_SIZE, and file_count
\* is the number of files with a chunk in content.
CtxAccounts ==
    /\ current_size = Len(content)
    /\ current_size <= MAX_SIZE
    /\ file_count = Cardinality(Range(content))

\* C31: after every file current_size is the length of content and at most
\* MAX_SIZE, and file_count is the number of files whose chunk was added;
\* once a chunk has not fitted, no chunk of any later file is added.
C31_ContextWithinLimit ==
    [][CtxAccounts' /\ (exceeded => content' = content)]_vars

====
